---- MODULE Spec2Model ----
(***************************************************************************)
(* Model of the event pipeline of monorepo-watcher: class Events           *)
(* (src/src/helpers/config-utils.ts, lines 79-262).                        *)
(*                                                                         *)
(* Strings that the code inspects character by character (paths, package   *)
(* directories) are sequences of one-character strings, so that            *)
(* String.includes and String.split are computed as the code computes      *)
(* them.  Time is an integer number of milliseconds.                       *)
(***************************************************************************)
EXTENDS Integers, Sequences, FiniteSets, TLC

\* ------------------------------------------------------------------ bounds
\* Notifications and clock ticks of the event pipeline's runs (Spec), of the
\* change-only runs (SpecChange); packages of a list (SpecPkg); words of a
\* command (SpecConfig).
MaxEvents == 2
MaxTicks == 2
MaxChanges == 4
MaxChangeTicks == 26
MaxPkgs == 2
MaxRun == 2

\* ------------------------------------------------------------ program data
\* debounce(func, 2000, { maxWait: 3000, leading: true })
wait == 2000
maxWait == 3000

\* Granularity of the model's clock: the quiet window in the runs with every
\* kind of notification, an eighth of it in the change-only runs.
Quantum == wait
FineQuantum == wait \div 8

Undefined == 0 - 1

RECURSIVE Abs(_)
\* The absolute path made of the given segments: <<"r","a">> is "/r/a".
Abs(segs) ==
    IF segs = << >> THEN << >>
    ELSE <<"/">> \o <<Head(segs)>> \o Abs(Tail(segs))

root == Abs(<<"r">>)

DirA == Abs(<<"r", "a">>)
DirAB == Abs(<<"r", "a", "b">>)
DirAx == <<"/", "r", "/", "a", "x">>
DirC == Abs(<<"r", "c">>)

FileInA == Abs(<<"r", "a", "f">>)
FileInAB == Abs(<<"r", "a", "b", "f">>)
FileInAx == <<"/", "r", "/", "a", "x", "/", "f">>
FileInC == Abs(<<"r", "c", "f">>)
FileInD == Abs(<<"r", "d", "f">>)
FileInRoot == Abs(<<"r", "f">>)

\* ------------------------------------------------------------ String helpers
\* String.prototype.includes
includes(s, sub) ==
    \E i \in 0..(Len(s) - Len(sub)) : SubSeq(s, i + 1, i + Len(sub)) = sub

\* Index of the last "/" of s, 0 when there is none.
LastSlash(s) ==
    LET idx == {i \in 1..Len(s) : s[i] = "/"}
    IN IF idx = {} THEN 0 ELSE CHOOSE i \in idx : \A j \in idx : j <= i

\* s.split("/").pop()
SplitPop(s) == SubSeq(s, LastSlash(s) + 1, Len(s))

\* s.split("/")[0]
SplitFirst(s) ==
    LET idx == {i \in 1..Len(s) : s[i] = "/"}
    IN IF idx = {} THEN s
       ELSE SubSeq(s, 1, (CHOOSE i \in idx : \A j \in idx : i <= j) - 1)

\* ------------------------------------------------------------ getPackage
NoPackage == [currentPkg |-> << >>, packagePath |-> << >>]

RECURSIVE forEachPkgFirst(_, _, _)
forEachPkgFirst(path, pkgs, acc) ==
    IF pkgs = << >> THEN acc
    ELSE IF includes(path, Head(pkgs).dir) /\ acc = NoPackage
         THEN forEachPkgFirst(path, Tail(pkgs),
                  [currentPkg |-> SplitPop(Head(pkgs).dir), packagePath |-> Head(pkgs).dir])
         ELSE forEachPkgFirst(path, Tail(pkgs), acc)

RECURSIVE forEachPkg(_, _, _)
\* this.packages.forEach((pkg) => { if (path.includes(pkg.dir)) {...} })
forEachPkg(path, pkgs, acc) ==
    IF pkgs = << >> THEN acc
    ELSE IF includes(path, Head(pkgs).dir)
         THEN forEachPkg(path, Tail(pkgs),
                  [currentPkg |-> SplitPop(Head(pkgs).dir), packagePath |-> Head(pkgs).dir])
         ELSE forEachPkg(path, Tail(pkgs), acc)

getPackageOf(path, pkgs) == forEachPkg(path, pkgs, NoPackage)

\* ------------------------------------------------------------ configuration
Kinds == {"add", "addDir", "change", "unlink", "unlinkDir"}

\* A workspace package: its directory and the name its package.json gives.
Pkg(d) == [dir |-> d, packageJson |-> [name |-> <<"@", "w", "/">> \o SplitPop(d)]]

\* Package lists of the event pipeline's runs.
MainPackages == {<<Pkg(DirA), Pkg(DirC)>>}

\* Paths the watcher reports: under the first package, under the second,
\* under none.
Paths == {FileInA, FileInC, FileInD}

\* Paths of the change-only runs: one in each package.
ChangePaths == {FileInA, FileInC}

NoActions == [k \in Kinds |-> "none"]

\* isAsync(fn)
isAsync(fn) == fn = "async"

\* A configuration file (IConfig): every field is optional, << >> when
\* absent and <<value>> when given.  actions maps some event kinds to a
\* function, "async" or "sync".
NoFile == [prefix |-> << >>, include |-> << >>, actions |-> << >>,
           options |-> << >>, runScripts |-> << >>, noChildProcessLogs |-> << >>]

\* The CLI arguments: run is the command given on the command line.
Argv(run) == [run |-> run]

\* defaultConfig(argv): no command, no action, child logs shown.
defaultConfig(argv) ==
    [prefix |-> << >>, include |-> <<"src">>, actions |-> NoActions,
     options |-> [alwaysStat |-> FALSE], runScripts |-> << >>,
     noChildProcessLogs |-> FALSE]

\* lodash merge of two arrays: index by index, the source's elements over
\* the destination's.
mergeArrays(dst, src) ==
    [i \in 1..(IF Len(dst) > Len(src) THEN Len(dst) ELSE Len(src)) |->
        IF i <= Len(src) THEN src[i] ELSE dst[i]]

\* mergeWith(dst, src) without a customizer: the fields src gives are merged
\* into dst, recursively for objects and arrays.
mergeWith(dst, src) ==
    [prefix |-> IF src.prefix = << >> THEN dst.prefix ELSE src.prefix[1],
     include |-> IF src.include = << >> THEN dst.include
                 ELSE mergeArrays(dst.include, src.include[1]),
     actions |-> IF src.actions = << >> THEN dst.actions
                 ELSE [k \in Kinds |-> IF k \in DOMAIN src.actions[1]
                                       THEN src.actions[1][k]
                                       ELSE dst.actions[k]],
     options |-> IF src.options = << >> THEN dst.options ELSE src.options[1],
     runScripts |-> IF src.runScripts = << >> THEN dst.runScripts
                    ELSE mergeArrays(dst.runScripts, src.runScripts[1]),
     noChildProcessLogs |-> IF src.noChildProcessLogs = << >>
                            THEN dst.noChildProcessLogs
                            ELSE src.noChildProcessLogs[1]]

\* A variant of normalizeConfig that leaves the file's runScripts alone.
normalizeConfigNoCli(config, pkgs, argv) ==
    LET noName == config.prefix = << >> /\ pkgs = << >>
        c1 == IF config.prefix = << >> /\ pkgs # << >>
              THEN [config EXCEPT !.prefix = <<SplitFirst(pkgs[1].packageJson.name)>>]
              ELSE config
        notAsync == /\ c1.actions # << >>
                    /\ \E k \in DOMAIN c1.actions[1] : ~isAsync(c1.actions[1][k])
        c2 == IF c1.include = << >> THEN [c1 EXCEPT !.include = << <<"src">> >>] ELSE c1
        noCommand == /\ Len(argv.run) = 0
                     /\ c2.runScripts = << << >> >>
                     /\ c2.actions = << >>
    IN IF noName \/ notAsync \/ noCommand
       THEN [threw |-> TRUE, config |-> << >>]
       ELSE [threw |-> FALSE, config |-> <<c2>>]

\* normalizeConfig (lines 22-50).  It throws when there is no prefix and no
\* package to take one from (packages[0] is undefined), when an action is a
\* function that is not async, and when there is no CLI command, the file's
\* runScripts is an empty list and the file has no actions object.
\* (name.length === 0 never holds: split returns at least one element.)
normalizeConfig(config, pkgs, argv) ==
    LET noName == config.prefix = << >> /\ pkgs = << >>
        c1 == IF config.prefix = << >> /\ pkgs # << >>
              THEN [config EXCEPT !.prefix = <<SplitFirst(pkgs[1].packageJson.name)>>]
              ELSE config
        notAsync == /\ c1.actions # << >>
                    /\ \E k \in DOMAIN c1.actions[1] : ~isAsync(c1.actions[1][k])
        c2 == IF c1.include = << >> THEN [c1 EXCEPT !.include = << <<"src">> >>] ELSE c1
        noCommand == /\ Len(argv.run) = 0
                     /\ c2.runScripts = << << >> >>
                     /\ c2.actions = << >>
        c3 == IF Len(argv.run) > 0 THEN [c2 EXCEPT !.runScripts = <<argv.run>>] ELSE c2
    IN IF noName \/ notAsync \/ noCommand
       THEN [threw |-> TRUE, config |-> << >>]
       ELSE [threw |-> FALSE, config |-> <<c3>>]

\* MergeNormalizeConfig (lines 10-20): the InternalConfig, or the throw.
MergeNormalizeConfig(config, pkgs, argv) ==
    LET n == normalizeConfig(config, pkgs, argv)
    IN IF n.threw THEN n
       ELSE [threw |-> FALSE,
             config |-> <<mergeWith(defaultConfig(argv), n.config[1])>>]

\* What the watcher is started from: a configuration file and the CLI
\* command.  The first gives a command on the command line and another in
\* the file, the second two callbacks and a command in the file, the third
\* one callback and an empty command.
CommandInput ==
    [file |-> [NoFile EXCEPT !.runScripts = << <<"npm", "test">> >>,
                             !.options = <<[alwaysStat |-> TRUE]>>],
     run |-> <<"echo", "hi">>]

MainInputs ==
    { CommandInput,
      [file |-> [NoFile EXCEPT
                    !.actions = <<[k \in {"change", "add"} |-> "async"]>>,
                    !.runScripts = << <<"echo", "hi">> >>,
                    !.noChildProcessLogs = <<TRUE>>],
       run |-> << >>],
      [file |-> [NoFile EXCEPT
                    !.actions = <<[k \in {"change"} |-> "async"]>>,
                    !.options = <<[alwaysStat |-> TRUE]>>,
                    !.runScripts = << << >> >>],
       run |-> << >>] }

\* The configuration the watcher is constructed with, from its input.
Merged(input, pkgs) == MergeNormalizeConfig(input.file, pkgs, Argv(input.run))

\* Merged configurations the watcher is constructed with.  An action is an
\* async function ("async") or absent ("none"): normalizeConfig (lines
\* 32-38) rejects every function that is not async.  options go to
\* chokidar.watch: with alwaysStat the watcher passes stats with a change.
Configs ==
    { Merged(i, pkgs).config[1] : i \in MainInputs, pkgs \in MainPackages }

\* The configuration of the change-only runs: every action is the command.
ChangeConfigs ==
    { Merged(CommandInput, pkgs).config[1] : pkgs \in MainPackages }

\* ------------------------------------------------------------ state
VARIABLES
    packages,        \* this.packages
    config,          \* this.config
    watched,         \* the watch set of this.instance (chokidar)
    lock,            \* this.lock: [held, queue] of the one key LOCK_NAME
    microtasks,      \* 1 while the lock's `done` continuation is queued
    lastArgs,        \* debounce: << >> or <<[path, stats]>>
    lastCallTime,    \* debounce: Undefined or a time
    lastInvokeTime,  \* debounce
    timerId,         \* debounce: Undefined or the pending timer's due time
    now,             \* Date.now()
    calls,           \* user callbacks invoked whose promise has not settled
    nRuns,           \* number of runUserFn invocations so far
    nEvents,         \* number of watcher notifications so far
    nErrors,         \* number of "error" notifications among them
    lastEvent,       \* << >> or <<the notification the last step handled>>
    prevEvent,       \* << >> or <<the path added or unlinked by the last
                     \*   notification, and whether it repeated the one before>>
    lastRun,         \* runUserFn invocations of the last step
    lastSettled,     \* << >> or <<the callback the last step settled>>
    logged,          \* log entries of the last step
    raised,          \* how the last step's handler failed, or "no"
    burst,           \* history of the current burst of change notifications
    env,             \* the environment: the configuration file and the CLI
                     \*   command, the paths the watcher reports, how many
                     \*   notifications, the clock,
                     \*   whether the history of bursts is kept
    resolved         \* << >> or <<[path, result]>> of a getPackage application,
                     \*   <<[result]>> of a MergeNormalizeConfig application

dvars == <<lastArgs, lastCallTime, lastInvokeTime, timerId>>

vars == <<packages, config, watched, lock, microtasks, lastArgs, lastCallTime,
          lastInvokeTime, timerId, now, calls, nRuns, nEvents, nErrors, lastEvent,
          prevEvent, lastRun, lastSettled, logged, raised, burst, env, resolved>>

\* ------------------------------------------------------------ helpers (utils, logger)
\* convertPath(this.root, filePath): the path relative to the workspace root.
convertPath(r, p) ==
    IF Len(p) > Len(r) /\ SubSeq(p, 1, Len(r)) = r /\ p[Len(r) + 1] = "/"
    THEN SubSeq(p, Len(r) + 2, Len(p))
    ELSE p

Entry(m, t, p) == [message |-> m, type |-> t, path |-> p]

\* EndLogger(eventName, path): "Action Completed", then the tagged entry.
EndLogger(eventName, path) ==
    << Entry("Action Completed", "log", << >>), Entry(eventName, "success", path) >>

\* The two entries the change handler logs before it takes the lock.
PerformingLogger(path) ==
    << Entry("Performing Action", "log", << >>), Entry("File Changed", "info", path) >>

\* ------------------------------------------------------------ spawn.sync
\* What the spawned child does: runs and exits 0, cannot be spawned, writes to
\* its stderr and exits 0, exits with status 1.
Children == {"ok", "error", "stderr", "exit1"}

\* const stdio = this.config.noChildProcessLogs ? "ignore" : ["inherit", "pipe", process.stderr]
stdioOf(noChildProcessLogs) ==
    IF noChildProcessLogs THEN <<"ignore", "ignore", "ignore">>
    ELSE <<"inherit", "pipe", "process.stderr">>

\* spawn.sync(command, args, {env, cwd, stdio}): command is << >> when
\* runScripts[0] is undefined, and the call then throws.  The result's
\* stderr is a buffer (<<content>>) only for a stream that is piped back,
\* null (<< >>) otherwise.
spawnSync(command, args, cwd, stdio, child) ==
    IF command = << >>
    THEN [threw |-> TRUE, error |-> FALSE, status |-> Undefined, stderr |-> << >>]
    ELSE [threw |-> FALSE,
          error |-> (child = "error"),
          status |-> IF child = "error" THEN Undefined
                     ELSE IF child = "exit1" THEN 1 ELSE 0,
          stderr |-> IF stdio[3] = "pipe"
                     THEN <<IF child = "stderr" THEN "text" ELSE "">>
                     ELSE << >>]

\* ------------------------------------------------------------ runUserFn
Run(id, eventName, options, mode, spawned, child, cp, log, threw) ==
    [id |-> id, eventName |-> eventName, options |-> options, mode |-> mode,
     spawned |-> spawned, child |-> child, cp |-> cp, logged |-> log,
     threw |-> threw]

\* Variants of runUserFn: one that also spawns the command when it invokes
\* the callback, one that logs the completion without waiting for the
\* callback's promise.
runUserFnBoth(eventName, options, fn, child, id) ==
    LET stdio == stdioOf(config.noChildProcessLogs)
        command == IF Len(config.runScripts) > 0
                   THEN <<config.runScripts[1]>> ELSE << >>
        args == IF Len(config.runScripts) > 0 THEN Tail(config.runScripts) ELSE << >>
        call == [command |-> command, args |-> args,
                 cwd |-> options.packagePath, stdio |-> stdio]
        cp == spawnSync(command, args, options.packagePath, stdio, child)
        mode == IF fn # "none" /\ isAsync(fn) THEN "callback" ELSE "spawn"
    IN IF cp.threw \/ cp.error \/ cp.stderr # << >>
       THEN Run(id, eventName, options, mode, <<call>>, child, <<cp>>, << >>, TRUE)
       ELSE Run(id, eventName, options, mode, <<call>>, child, <<cp>>,
                EndLogger(eventName, convertPath(root, options.filePath)), FALSE)

runUserFnEager(eventName, options, fn, child, id) ==
    LET relativePath == convertPath(root, options.filePath)
    IN IF fn # "none" /\ isAsync(fn)
       THEN Run(id, eventName, options, "callback", << >>, "none", << >>,
                EndLogger(eventName, relativePath), FALSE)
       ELSE runUserFnBoth(eventName, options, fn, child, id)

\* runUserFn(eventName, options, fn): what one invocation does before it
\* returns or throws.  child is what the spawned process does if one is
\* spawned, id numbers the invocation.
runUserFn(eventName, options, fn, child, id) ==
    LET relativePath == convertPath(root, options.filePath)
    IN IF fn # "none" /\ isAsync(fn)
       THEN Run(id, eventName, options, "callback", << >>, "none", << >>, << >>, FALSE)
       ELSE LET stdio == stdioOf(config.noChildProcessLogs)
                command == IF Len(config.runScripts) > 0
                           THEN <<config.runScripts[1]>> ELSE << >>
                args == IF Len(config.runScripts) > 0
                        THEN Tail(config.runScripts) ELSE << >>
                call == [command |-> command, args |-> args,
                         cwd |-> options.packagePath, stdio |-> stdio]
                cp == spawnSync(command, args, options.packagePath, stdio, child)
            IN IF cp.threw \/ cp.error \/ cp.stderr # << >>
               THEN Run(id, eventName, options, "spawn", <<call>>, child, <<cp>>,
                        << >>, TRUE)
               ELSE Run(id, eventName, options, "spawn", <<call>>, child, <<cp>>,
                        EndLogger(eventName, relativePath), FALSE)

\* private getPackage(path), on this.packages
getPackage(path) == getPackageOf(path, packages)

\* { currentPkg, filePath, packagePath, stats }
Options(filePath, stats) ==
    [currentPkg |-> getPackage(filePath).currentPkg, filePath |-> filePath,
     packagePath |-> getPackage(filePath).packagePath, stats |-> stats]

\* ------------------------------------------------------------ debounce
\* lodash.debounce(func, wait, {maxWait, leading: true}); trailing keeps its
\* default, true.  d is the closure's state, time is Date.now().  Each
\* operator gives the new closure state and, in invoke, the arguments func is
\* applied to (<< >> when func is not invoked).
Min(a, b) == IF a <= b THEN a ELSE b

Debouncer == [lastArgs |-> lastArgs, lastCallTime |-> lastCallTime,
              lastInvokeTime |-> lastInvokeTime, timerId |-> timerId]

shouldInvoke(d, time) ==
    \/ d.lastCallTime = Undefined
    \/ time - d.lastCallTime >= wait
    \/ time - d.lastCallTime < 0
    \/ time - d.lastInvokeTime >= maxWait

remainingWaitNoMax(d, time) == wait - (time - d.lastCallTime)

remainingWait(d, time) ==
    Min(wait - (time - d.lastCallTime), maxWait - (time - d.lastInvokeTime))

invokeFunc(d, time) ==
    [d |-> [d EXCEPT !.lastArgs = << >>, !.lastInvokeTime = time],
     invoke |-> d.lastArgs]

\* leading: true
leadingEdge(d, time) ==
    invokeFunc([d EXCEPT !.lastInvokeTime = time, !.timerId = time + wait], time)

trailingEdgeSilent(d, time) ==
    [d |-> [d EXCEPT !.timerId = Undefined, !.lastArgs = << >>], invoke |-> << >>]

trailingEdge(d, time) ==
    IF d.lastArgs # << >>
    THEN invokeFunc([d EXCEPT !.timerId = Undefined], time)
    ELSE [d |-> [d EXCEPT !.timerId = Undefined, !.lastArgs = << >>], invoke |-> << >>]

timerExpired(d, time) ==
    IF shouldInvoke(d, time)
    THEN trailingEdge(d, time)
    ELSE [d |-> [d EXCEPT !.timerId = time + remainingWait(d, time)], invoke |-> << >>]

\* A variant of debounced that keeps the arguments of the first call still
\* waiting instead of the latest.
debouncedKeepFirst(d, time, args) ==
    LET isInvoking == shouldInvoke(d, time)
        d1 == [d EXCEPT !.lastArgs = IF d.lastArgs = << >> THEN <<args>> ELSE @,
                        !.lastCallTime = time]
    IN IF isInvoking /\ d1.timerId = Undefined
       THEN leadingEdge(d1, time)
       ELSE IF isInvoking
            THEN invokeFunc([d1 EXCEPT !.timerId = time + wait], time)
            ELSE [d |-> IF d1.timerId = Undefined
                        THEN [d1 EXCEPT !.timerId = time + wait] ELSE d1,
                  invoke |-> << >>]

debounced(d, time, args) ==
    LET isInvoking == shouldInvoke(d, time)
        d1 == [d EXCEPT !.lastArgs = <<args>>, !.lastCallTime = time]
    IN IF isInvoking /\ d1.timerId = Undefined
       THEN leadingEdge(d1, time)
       ELSE IF isInvoking
            THEN invokeFunc([d1 EXCEPT !.timerId = time + wait], time)
            ELSE [d |-> IF d1.timerId = Undefined
                        THEN [d1 EXCEPT !.timerId = time + wait] ELSE d1,
                  invoke |-> << >>]

\* ------------------------------------------------------------ AsyncLock
\* this.lock.acquire(LOCK_NAME, fn): fn runs at once when the key is free,
\* else it is queued.  fn takes no `done` parameter, so the lock is released
\* (done) in a continuation of the value fn returns; fn here returns
\* undefined, whatever runUserFn started.
Task(options, fn) == [eventName |-> "Change", options |-> options, fn |-> fn]

exec(task, child, id) == runUserFn(task.eventName, task.options, task.fn, child, id)

acquire(l, task, child, id) ==
    IF ~l.held
    THEN [lock |-> [held |-> TRUE, queue |-> << >>],
          runs |-> <<exec(task, child, id)>>, microtasks |-> 1]
    ELSE [lock |-> [l EXCEPT !.queue = Append(@, task)],
          runs |-> << >>, microtasks |-> microtasks]

\* The continuation: run the next queued task, or free the key.
done(l, child, id) ==
    IF l.queue # << >>
    THEN [lock |-> [l EXCEPT !.queue = Tail(@)],
          runs |-> <<exec(Head(l.queue), child, id)>>, microtasks |-> 1]
    ELSE [lock |-> [held |-> FALSE, queue |-> << >>], runs |-> << >>, microtasks |-> 0]

\* fs.statSync(filePath)
statSync(filePath) == <<0>>

\* The debounced function of onChange (lines 177-196), applied to the
\* arguments the debouncer kept.
func(args, child, id) ==
    LET stats == IF args.stats = << >> THEN statSync(args.path) ELSE args.stats
        a == acquire(lock, Task(Options(args.path, stats), config.actions["change"]),
                     child, id)
    IN [lock |-> a.lock, runs |-> a.runs, microtasks |-> a.microtasks,
        logged |-> PerformingLogger(convertPath(root, args.path))]

\* ------------------------------------------------------------ history of bursts
Idle(d, time) ==
    /\ d.timerId = Undefined
    /\ d.lastArgs = << >>
    /\ (d.lastCallTime = Undefined \/ time - d.lastCallTime >= wait)

NoBurst == [n |-> 0, start |-> 0, last |-> 0, gapsOK |-> TRUE, fires |-> 0,
            firstNotified |-> << >>, lastNotified |-> << >>,
            firstFired |-> << >>, lastFired |-> << >>, pendingSince |-> Undefined]

NotifyBurst(b, d, time, args) ==
    IF Idle(d, time)
    THEN [NoBurst EXCEPT !.n = 1, !.start = time, !.last = time,
                         !.firstNotified = <<args>>, !.lastNotified = <<args>>,
                         !.pendingSince = time]
    ELSE [b EXCEPT !.n = @ + 1, !.last = time,
                   !.gapsOK = @ /\ (time - b.last < wait),
                   !.lastNotified = <<args>>,
                   !.pendingSince = IF @ = Undefined THEN time ELSE @]

FireBurst(b, invoke) ==
    IF invoke = << >> THEN b
    ELSE [b EXCEPT !.fires = @ + 1,
                   !.firstFired = IF b.fires = 0 THEN invoke ELSE @,
                   !.lastFired = invoke,
                   !.pendingSince = Undefined]

\* ------------------------------------------------------------ initial state
\* The state after the constructor (lines 87-97) and setup (lines 99-106).
Start(pkgs, cfgs) ==
    /\ packages \in pkgs
    /\ config \in cfgs
    /\ watched = {}
    /\ lock = [held |-> FALSE, queue |-> << >>]
    /\ microtasks = 0
    /\ lastArgs = << >>
    /\ lastCallTime = Undefined
    /\ lastInvokeTime = 0
    /\ timerId = Undefined
    /\ now = 0
    /\ calls = {}
    /\ nRuns = 0
    /\ nEvents = 0
    /\ nErrors = 0
    /\ lastEvent = << >>
    /\ prevEvent = << >>
    /\ lastRun = << >>
    /\ lastSettled = << >>
    /\ logged = << >>
    /\ raised = "no"
    /\ burst = NoBurst
    /\ resolved = << >>

\* The environment of a run: the watcher's input, and how far the run goes.
Env(input, paths, maxEvents, quantum, maxTime, bursts) ==
    [file |-> input.file, run |-> input.run, paths |-> paths,
     maxEvents |-> maxEvents, quantum |-> quantum, maxTime |-> maxTime,
     bursts |-> bursts]

Init ==
    /\ Start(MainPackages, Configs)
    /\ env \in {Env(i, Paths, MaxEvents, Quantum, MaxTicks * Quantum, FALSE) :
                  i \in MainInputs}
    /\ config = Merged(env, packages).config[1]

\* ------------------------------------------------------------ handlers
\* A notification is delivered when the event loop is free: no continuation
\* is queued.
CanNotify == nEvents < env.maxEvents /\ microtasks = 0

Event(kind, path) == <<[kind |-> kind, path |-> path, n |-> nEvents + 1]>>

AddKinds == {"add", "addDir"}

UnlinkKinds == {"unlink", "unlinkDir"}

\* The listener's notification repeats the one handled before it: the same
\* path, added again or unlinked again.
Repeats(ev) ==
    /\ prevEvent # << >>
    /\ prevEvent[1].path = ev.path
    /\ prevEvent[1].adds = (ev.kind \in AddKinds)

\* What a handler execution leaves behind: the runUserFn invocations it
\* made, what it logged, how it ended.
Finish(ev, runs, log, how) ==
    /\ lastEvent' = ev
    /\ prevEvent' = IF ev = << >> THEN prevEvent
                    ELSE IF ev[1].kind \in AddKinds \cup UnlinkKinds
                         THEN <<[adds |-> ev[1].kind \in AddKinds, path |-> ev[1].path,
                                 again |-> Repeats(ev[1])]>>
                         ELSE << >>
    /\ nEvents' = nEvents + Len(ev)
    /\ lastRun' = runs
    /\ nRuns' = nRuns + Len(runs)
    /\ calls' = calls \cup {runs[i] : i \in {j \in DOMAIN runs : runs[j].mode = "callback"}}
    /\ logged' = log
    /\ raised' = how
    /\ lastSettled' = << >>

\* instance.add(filePath) / instance.unwatch(filePath)
instanceAdd(w, filePath) == w \cup {filePath}

instanceUnwatchNothing(w, filePath) == w

instanceUnwatch(w, filePath) == w \ {filePath}

\* A variant of the listener that waits for the change action in flight.
ListenerSerialized(kind, eventName, filePath, stats, w, child) ==
    LET r == runUserFn(eventName, Options(filePath, stats), config.actions[kind],
                       child, nRuns + 1)
    IN /\ CanNotify
       /\ {c \in calls : c.eventName = "Change"} = {}
       /\ watched' = w
       /\ Finish(Event(kind, filePath), <<r>>, r.logged,
                 IF r.threw THEN "thrown" ELSE "no")
       /\ UNCHANGED <<nErrors, env, packages, config, lock, microtasks, dvars, now, burst, resolved>>

\* The listener of an add or unlink kind (lines 120-170): update the watch
\* set, then runUserFn, whose exception leaves the listener.
Listener(kind, eventName, filePath, stats, w, child) ==
    LET r == runUserFn(eventName, Options(filePath, stats), config.actions[kind],
                       child, nRuns + 1)
    IN /\ CanNotify
       /\ watched' = w
       /\ Finish(Event(kind, filePath), <<r>>, r.logged,
                 IF r.threw THEN "thrown" ELSE "no")
       /\ UNCHANGED <<nErrors, env, packages, config, lock, microtasks, dvars, now, burst, resolved>>

onErrorClosing ==
    /\ CanNotify
    /\ Finish(Event("error", << >>), << >>, <<Entry("Error", "error", << >>)>>, "no")
    /\ nErrors' = nErrors + 1
    /\ watched' = {}
    /\ UNCHANGED <<env, packages, config, lock, microtasks, dvars, now, burst,
                   resolved>>

onError ==
    /\ CanNotify
    /\ Finish(Event("error", << >>), << >>, <<Entry("Error", "error", << >>)>>, "no")
    /\ nErrors' = nErrors + 1
    /\ UNCHANGED <<env, packages, config, watched, lock, microtasks, dvars, now, burst,
                   resolved>>

onAdd(filePath, child) ==
    Listener("add", "Add", filePath, <<nEvents + 1>>,
             instanceAdd(watched, filePath), child)

onAddDir(filePath, child) ==
    Listener("addDir", "Add Dir", filePath, <<nEvents + 1>>,
             instanceAdd(watched, filePath), child)

onUnlink(filePath, child) ==
    Listener("unlink", "Remove", filePath, << >>,
             instanceUnwatch(watched, filePath), child)

onUnlinkDir(filePath, child) ==
    Listener("unlinkDir", "Remove Dir", filePath, << >>,
             instanceUnwatch(watched, filePath), child)

\* The debouncer decided r: take its closure state and, when it invokes,
\* run the debounced function.  A failure inside the lock's task rejects the
\* promise acquire returned, which nothing handles.
Debounced(ev, r, child) ==
    /\ lastArgs' = r.d.lastArgs
    /\ lastCallTime' = r.d.lastCallTime
    /\ lastInvokeTime' = r.d.lastInvokeTime
    /\ timerId' = r.d.timerId
    /\ IF r.invoke = << >>
       THEN /\ Finish(ev, << >>, << >>, "no")
            /\ UNCHANGED <<lock, microtasks>>
       ELSE LET f == func(r.invoke[1], child, nRuns + 1)
                log == IF f.runs = << >> THEN f.logged
                       ELSE f.logged \o f.runs[1].logged
                how == IF f.runs # << >> /\ f.runs[1].threw
                       THEN "unhandledRejection" ELSE "no"
            IN /\ Finish(ev, f.runs, log, how)
               /\ lock' = f.lock
               /\ microtasks' = f.microtasks

\* The "change" listener: the debounced function (lines 174-200).
onChange(filePath, hasStats, child) ==
    LET args == [path |-> filePath,
                 stats |-> IF hasStats THEN <<nEvents + 1>> ELSE << >>]
        r == debounced(Debouncer, now, args)
    IN /\ CanNotify
       /\ Debounced(Event("change", filePath), r, child)
       /\ burst' = IF env.bursts
                   THEN FireBurst(NotifyBurst(burst, Debouncer, now, args), r.invoke)
                   ELSE burst
       /\ UNCHANGED <<nErrors, env, packages, config, watched, now, resolved>>

\* The debouncer's timer is due: timerExpired runs.
TimerFires(child) ==
    LET r == timerExpired(Debouncer, now)
    IN /\ timerId # Undefined
       /\ now >= timerId
       /\ microtasks = 0
       /\ Debounced(<< >>, r, child)
       /\ burst' = IF env.bursts THEN FireBurst(burst, r.invoke) ELSE burst
       /\ UNCHANGED <<nErrors, env, packages, config, watched, now, resolved>>

\* The continuation of lock.acquire runs before any other handler.
LockDone(child) ==
    LET r == done(lock, child, nRuns + 1)
    IN /\ microtasks = 1
       /\ lock' = r.lock
       /\ microtasks' = r.microtasks
       /\ lastRun' = IF r.runs = << >> THEN lastRun ELSE r.runs
       /\ nRuns' = nRuns + Len(r.runs)
       /\ calls' = calls \cup {r.runs[i] : i \in {j \in DOMAIN r.runs : r.runs[j].mode = "callback"}}
       /\ logged' = IF r.runs = << >> THEN logged ELSE r.runs[1].logged
       /\ raised' = IF r.runs # << >> /\ r.runs[1].threw THEN "unhandledRejection"
                    ELSE raised
       /\ UNCHANGED <<nErrors, env, packages, config, watched, dvars, now, nEvents, lastEvent,
                      prevEvent, lastSettled, burst, resolved>>

\* fn({...options}).then(() => this.EndLogger(eventName, relativePath)): the
\* callback's promise settles.  A promise that never settles takes no step.
Settle(c, how, log) ==
    /\ microtasks = 0
    /\ c \in calls
    /\ calls' = calls \ {c}
    /\ lastSettled' = <<[call |-> c, how |-> how]>>
    /\ logged' = log
    /\ raised' = IF how = "rejected" THEN "unhandledRejection" ELSE "no"
    /\ lastRun' = << >>
    /\ lastEvent' = << >>
    /\ UNCHANGED <<nErrors, env, packages, config, watched, lock, microtasks, dvars, now, nRuns,
                   nEvents, prevEvent, burst, resolved>>

thenOf(c) == EndLogger(c.eventName, convertPath(root, c.options.filePath))

CallbackResolves(c) == Settle(c, "resolved", thenOf(c))

\* A variant in which the rejection is handled like the fulfilment.
CallbackRejectsSwallowed(c) == Settle(c, "rejected", thenOf(c))

CallbackRejects(c) == Settle(c, "rejected", << >>)

\* Time passes, up to the next due timer: timers run on time.
Tick ==
    /\ microtasks = 0
    /\ timerId = Undefined \/ now < timerId
    /\ now < env.maxTime
    /\ now' = IF timerId # Undefined THEN Min(now + env.quantum, timerId)
              ELSE now + env.quantum
    /\ lastEvent' = << >>
    /\ lastRun' = << >>
    /\ lastSettled' = << >>
    /\ logged' = << >>
    /\ raised' = "no"
    /\ UNCHANGED <<nErrors, env, packages, config, watched, lock, microtasks, dvars, calls, nRuns,
                   nEvents, prevEvent, burst, resolved>>

Next ==
    \/ onError
    \/ \E p \in env.paths, child \in Children : onAdd(p, child)
    \/ \E p \in env.paths, child \in Children : onAddDir(p, child)
    \/ \E p \in env.paths, child \in Children : onUnlink(p, child)
    \/ \E p \in env.paths, child \in Children : onUnlinkDir(p, child)
    \/ \E p \in env.paths, child \in Children : onChange(p, config.options.alwaysStat, child)
    \/ \E child \in Children : TimerFires(child)
    \/ \E child \in Children : LockDone(child)
    \/ \E c \in calls : CallbackResolves(c)
    \/ \E c \in calls : CallbackRejects(c)
    \/ Tick

Spec == Init /\ [][Next]_vars

\* ------------------------------------------------------------ getPackage alone
\* getPackage applied to every path of PkgPaths, for every list of at most
\* MaxPkgs distinct packages.
PkgDirs == {DirA, DirAB, DirAx, DirC}

PkgPaths == {FileInA, FileInAB, FileInAx, FileInC, FileInD, FileInRoot}

PkgLists ==
    UNION { { [i \in 1..n |-> Pkg(f[i])] :
                f \in {g \in [1..n -> PkgDirs] :
                          \A i, j \in 1..n : i # j => g[i] # g[j]} } :
            n \in 0..MaxPkgs }

InitPkg ==
    /\ Start(PkgLists, ChangeConfigs)
    /\ env = Env(CommandInput, {}, 0, Quantum, 0, FALSE)

Resolve(path) ==
    /\ resolved' = <<[path |-> path, result |-> getPackage(path)]>>
    /\ UNCHANGED <<packages, config, watched, lock, microtasks, dvars, now, calls,
                   nRuns, nEvents, nErrors, lastEvent, prevEvent, lastRun, lastSettled,
                   logged, raised, burst, env>>

NextPkg == \E path \in PkgPaths : Resolve(path)

SpecPkg == InitPkg /\ [][NextPkg]_vars

\* ------------------------------------------------------------ configuration alone
\* MergeNormalizeConfig applied to configuration files with or without a
\* prefix, an actions object and a command, under every CLI command of at
\* most MaxRun words, with and without packages.
Words == {"echo", "hi"}

RunLists == UNION { [1..n -> Words] : n \in 0..MaxRun }

ActionObjects ==
    { << >>,
      [k \in {"change"} |-> "async"],
      [k \in {"change"} |-> "sync"],
      [k \in Kinds |-> "async"] }

ConfigFiles ==
    { [NoFile EXCEPT !.prefix = p, !.actions = a, !.runScripts = r] :
        p \in {<< >>, << <<"w">> >>},
        a \in {<< >>} \cup {<<o>> : o \in ActionObjects},
        r \in {<< >>} \cup {<<l>> : l \in RunLists} }

ConfigInputs == { [file |-> f, run |-> r] : f \in ConfigFiles, r \in RunLists }

InitConfig ==
    /\ Start(MainPackages \cup {<< >>}, ChangeConfigs)
    /\ env \in {Env(i, {}, 0, Quantum, 0, FALSE) : i \in ConfigInputs}

MergeNormalize ==
    /\ resolved = << >>
    /\ resolved' = <<[result |-> Merged(env, packages)]>>
    /\ UNCHANGED <<packages, config, watched, lock, microtasks, dvars, now, calls,
                   nRuns, nEvents, nErrors, lastEvent, prevEvent, lastRun, lastSettled,
                   logged, raised, burst, env>>

NextConfig == MergeNormalize

SpecConfig == InitConfig /\ [][NextConfig]_vars

\* ------------------------------------------------------------ stray paths
\* The same program when the watcher reports only paths that lie under no
\* package: in a directory of its own, in a directory whose name begins with
\* a package directory's name.
StrayPaths == {FileInD, FileInAx}

InitStray ==
    /\ Start(MainPackages, Configs)
    /\ env \in {Env(i, StrayPaths, MaxEvents, Quantum, MaxTicks * Quantum, FALSE) :
                  i \in MainInputs}
    /\ config = Merged(env, packages).config[1]

SpecStray == InitStray /\ [][Next]_vars

\* ------------------------------------------------------------ change-only runs
\* The same program when the watcher reports only changes, on a finer clock.
InitChange ==
    /\ Start(MainPackages, ChangeConfigs)
    /\ env = Env(CommandInput, ChangePaths, MaxChanges, FineQuantum,
                 MaxChangeTicks * FineQuantum, TRUE)

NextChange ==
    \/ \E p \in env.paths, child \in Children : onChange(p, config.options.alwaysStat, child)
    \/ \E child \in Children : TimerFires(child)
    \/ \E child \in Children : LockDone(child)
    \/ Tick

SpecChange == InitChange /\ [][NextChange]_vars

\* ============================================================ claims
ChangeBodiesInFlight == {c \in calls : c.eventName = "Change"}

\* C1: in every reachable state at most one change-triggered action body is
\* in flight (entered under the lock, its callback not yet settled), across
\* all packages.
C1_OneChangeBodyInFlight == Cardinality(ChangeBodiesInFlight) <= 1

\* The debouncer is at rest again: no timer, nothing kept.
BurstOver == timerId = Undefined /\ lastArgs = << >>

\* A finished burst that began at an idle debouncer, with every gap shorter
\* than the quiet window and the whole shorter than the max-wait.
ShortBurst ==
    /\ BurstOver
    /\ burst.n >= 1
    /\ burst.gapsOK
    /\ burst.last - burst.start < maxWait

\* C2 (as stated): a burst of N >= 1 change notifications with gaps under
\* 2000 and a length under 3000 fires the handler exactly once, with the last
\* notification's path.
C2_BurstFiresOnce ==
    ShortBurst =>
        /\ burst.fires = 1
        /\ burst.lastFired[1].path = burst.lastNotified[1].path

\* C2 (amended): such a burst fires the handler at once with the first
\* notification's arguments and, when N >= 2, exactly once more, at the
\* trailing edge, with the last notification's arguments: once for N = 1,
\* twice for N >= 2.
C2_BurstFiresLeadingThenTrailing ==
    ShortBurst =>
        /\ burst.fires = IF burst.n = 1 THEN 1 ELSE 2
        /\ burst.firstFired = burst.firstNotified
        /\ burst.lastFired = burst.lastNotified

C2_Witness ==
    /\ ShortBurst
    /\ burst.n >= 3
    /\ burst.fires = 2
    /\ burst.firstFired[1].path # burst.lastFired[1].path
    /\ burst.last - burst.start > wait

Pending == lastArgs # << >>

\* Notifications are still arriving with gaps under the quiet window.
BurstAlive == burst.n >= 1 /\ burst.gapsOK /\ now - burst.last < wait

LongBurstFiresAgain ==
    (burst.gapsOK /\ burst.last - burst.start > maxWait) => burst.fires >= 2

\* C3 (as stated): while change notifications keep arriving with gaps under
\* 2000, a notification the handler has not been fired for is never left
\* waiting past 3000 after the previous firing; a burst longer than 3000
\* fires more than once.
C3_FiredWithinMaxWaitOfPreviousFiring ==
    /\ (Pending /\ BurstAlive) => now - lastInvokeTime <= maxWait
    /\ LongBurstFiresAgain

\* C3 (amended): the handler is fired no later than 3000 after the earliest
\* notification it has not yet been fired for, which is less than 2000 + 2000
\* after the previous firing; a burst longer than 3000 fires more than once.
C3_FiredWithinMaxWaitOfPendingNotification ==
    /\ Pending =>
          /\ burst.pendingSince # Undefined
          /\ now - burst.pendingSince <= maxWait
          /\ timerId # Undefined
          /\ timerId - burst.pendingSince <= maxWait
          /\ now - lastInvokeTime < wait + wait
    /\ LongBurstFiresAgain

C3_Witness ==
    /\ Pending
    /\ BurstAlive
    /\ now - lastInvokeTime > maxWait
    /\ burst.last - burst.start > maxWait
    /\ burst.fires >= 2

\* p lies under directory d: d, then "/", then more.
IsUnder(p, d) ==
    /\ Len(p) > Len(d) + 1
    /\ SubSeq(p, 1, Len(d)) = d
    /\ p[Len(d) + 1] = "/"

Owners(p) == {i \in DOMAIN packages : IsUnder(p, packages[i].dir)}

Matches(p) == {i \in DOMAIN packages : includes(p, packages[i].dir)}

Owned(d) == [currentPkg |-> SplitPop(d), packagePath |-> d]

\* C4: for a path under exactly one package directory getPackage returns that
\* package (its directory, and its name: the directory's last segment); for a
\* path under no package directory it returns the empty string for both.
C4_ResolvesOwner ==
    resolved # << >> =>
        LET p == resolved[1].path
        IN /\ \A i \in DOMAIN packages :
                 Owners(p) = {i} => resolved[1].result = Owned(packages[i].dir)
           /\ Owners(p) = {} => resolved[1].result = NoPackage

Reverse(q) == [i \in 1..Len(q) |-> q[Len(q) + 1 - i]]

\* C5: when a path matches several package directories, getPackage returns
\* the matching package that comes last in the list, whatever the nesting;
\* with the list's order swapped the result is the other one.
C5_LastMatchWins ==
    resolved # << >> =>
        LET p == resolved[1].path
            m == Matches(p)
        IN Cardinality(m) >= 2 =>
              \A i, j \in m :
                 (\A k \in m : i <= k /\ k <= j) =>
                     /\ resolved[1].result = Owned(packages[j].dir)
                     /\ getPackageOf(p, Reverse(packages)) = Owned(packages[i].dir)

C5_Witness ==
    /\ resolved # << >>
    /\ packages = <<Pkg(DirAB), Pkg(DirA)>>
    /\ resolved[1].path = FileInAB
    /\ resolved[1].result = Owned(DirA)

SameAgain ==
    /\ lastEvent' # << >>
    /\ nEvents' = nEvents + 1
    /\ Repeats(lastEvent'[1])

WatchSetFollows ==
    lastEvent # << >> =>
        /\ lastEvent[1].kind \in AddKinds => lastEvent[1].path \in watched
        /\ lastEvent[1].kind \in UnlinkKinds => lastEvent[1].path \notin watched

\* C6: every add/addDir leaves its path in the watch set and every
\* unlink/unlinkDir leaves it out, whatever runUserFn then does; the same add
\* (or unlink) twice in a row leaves the watch set as one did.
C6_WatchSetFollowsEvents ==
    /\ []WatchSetFollows
    /\ [][SameAgain => watched' = watched]_vars

C6_Witness ==
    /\ lastEvent # << >>
    /\ lastEvent[1].kind = "addDir"
    /\ lastEvent[1].path = FileInC
    /\ prevEvent # << >>
    /\ prevEvent[1].again
    /\ watched = {FileInC}
    /\ raised = "thrown"

KindOf(eventName) ==
    CASE eventName = "Add" -> "add"
      [] eventName = "Add Dir" -> "addDir"
      [] eventName = "Change" -> "change"
      [] eventName = "Remove" -> "unlink"
      [] eventName = "Remove Dir" -> "unlinkDir"

\* The completion entries among log entries: tagged "success".
Completions(log) == {j \in DOMAIN log : log[j].type = "success"}

CompletionsOf(log, eventName) ==
    {j \in DOMAIN log : log[j].type = "success" /\ log[j].message = eventName}

\* What runScripts says to spawn, in the directory of the path's package.
SpawnOf(filePath) ==
    [command |-> IF config.runScripts = << >> THEN << >>
                 ELSE <<config.runScripts[1]>>,
     args |-> IF config.runScripts = << >> THEN << >> ELSE Tail(config.runScripts),
     cwd |-> getPackage(filePath).packagePath,
     stdio |-> stdioOf(config.noChildProcessLogs)]

\* C7: runUserFn does exactly one of two things: with an async function
\* configured for the event kind it invokes it with the event context and
\* spawns nothing; otherwise it spawns runScripts[0] with runScripts[1..] in
\* the package's directory, invokes nothing and, when the spawn succeeds,
\* logs one completion entry tagged with the event kind.
C7_CallbackOrSpawn ==
    \A i \in DOMAIN lastRun :
        LET r == lastRun[i]
        IN IF config.actions[KindOf(r.eventName)] = "async"
           THEN /\ r.mode = "callback"
                /\ r \in calls
                /\ r.spawned = << >>
                /\ r.cp = << >>
           ELSE /\ r.mode = "spawn"
                /\ r \notin calls
                /\ r.spawned = <<SpawnOf(r.options.filePath)>>
                /\ (r.child = "ok" /\ r.spawned[1].command # << >>) =>
                      /\ Cardinality(CompletionsOf(logged, r.eventName)) = 1
                      /\ Cardinality(Completions(logged)) = 1

C7_Witness ==
    /\ lastRun # << >>
    /\ lastRun[1].eventName = "Change"
    /\ lastRun[1].mode = "spawn"
    /\ lastRun[1].spawned[1].command = <<"echo">>
    /\ lastRun[1].spawned[1].args = <<"hi">>
    /\ lastRun[1].spawned[1].cwd = DirA
    /\ Cardinality(CompletionsOf(logged, "Change")) = 1

\* C8: a configured async callback is invoked with the resolved package
\* name, the file path and the package directory; one completion entry, with
\* the event kind and the path relative to the root, is logged when its
\* promise resolves, and none for it before.
C8_CompletionAfterCallback ==
    /\ \A i \in DOMAIN lastRun :
          lastRun[i].mode = "callback" =>
             /\ lastRun[i].options.currentPkg =
                   getPackage(lastRun[i].options.filePath).currentPkg
             /\ lastRun[i].options.packagePath =
                   getPackage(lastRun[i].options.filePath).packagePath
             /\ Completions(logged) = {}
    /\ (lastSettled = << >> /\ lastRun = << >>) => Completions(logged) = {}
    /\ lastSettled # << >> =>
          /\ lastSettled[1].call \notin calls
          /\ lastSettled[1].how = "resolved" =>
                logged = EndLogger(lastSettled[1].call.eventName,
                             convertPath(root, lastSettled[1].call.options.filePath))
          /\ lastSettled[1].how = "rejected" => logged = << >>

C8_Witness ==
    /\ lastSettled # << >>
    /\ lastSettled[1].how = "resolved"
    /\ lastSettled[1].call.eventName = "Add"
    /\ lastSettled[1].call.options.currentPkg = <<"c">>
    /\ lastSettled[1].call.options.filePath = FileInC
    /\ lastSettled[1].call.options.packagePath = DirC
    /\ logged = EndLogger("Add", <<"c", "/", "f">>)

\* C9: whenever the spawned command ends with a spawn-level error, with
\* stderr content or with a non-zero exit status, runUserFn raises and logs
\* no completion entry.
C9_FailedSpawnRaises ==
    \A i \in DOMAIN lastRun :
        (lastRun[i].mode = "spawn" /\ lastRun[i].child \in {"error", "stderr", "exit1"}) =>
            /\ lastRun[i].threw
            /\ Completions(logged) = {}

ErrorStep ==
    /\ lastEvent' # << >>
    /\ lastEvent'[1].kind = "error"
    /\ nEvents' = nEvents + 1

Dispatchable ==
    /\ ENABLED onError
    /\ \A p \in Paths :
          /\ ENABLED onAdd(p, "ok")
          /\ ENABLED onAddDir(p, "ok")
          /\ ENABLED onChange(p, TRUE, "ok")
          /\ ENABLED onUnlink(p, "ok")
          /\ ENABLED onUnlinkDir(p, "ok")

\* C10: a watcher error only emits a diagnostic: it runs no action and leaves
\* the watch set, the lock and the debouncer as they were; after it every
\* notification the watcher delivers is still dispatched to its handler.
C10_ErrorOnlyLogs ==
    /\ [][ErrorStep =>
            /\ UNCHANGED <<watched, lock, microtasks, dvars, calls, nRuns>>
            /\ lastRun' = << >>
            /\ logged' = <<Entry("Error", "error", << >>)>>
            /\ raised' = "no"]_vars
    /\ [](nErrors > 0 /\ CanNotify => Dispatchable)

C10_Witness ==
    /\ nErrors = 1
    /\ lastEvent # << >>
    /\ lastEvent[1].kind = "add"
    /\ lastEvent[1].n = 2
    /\ lastRun # << >>
    /\ lastEvent[1].path \in watched

\* C11: whenever MergeNormalizeConfig returns without throwing, every event
\* kind has an async callback or the merged runScripts is non-empty; every
\* other configuration is rejected.
C11_AcceptedConfigResolvesEveryKind ==
    (resolved # << >> /\ ~resolved[1].result.threw) =>
        \A k \in Kinds :
            \/ resolved[1].result.config[1].actions[k] = "async"
            \/ resolved[1].result.config[1].runScripts # << >>

\* The command every spawn of the last step ran.
SpawnedCommands ==
    { lastRun[i].spawned[1].command \o lastRun[i].spawned[1].args :
        i \in {j \in DOMAIN lastRun : lastRun[j].mode = "spawn"} }

\* C12: when the CLI command is non-empty, the watcher's runScripts is the CLI
\* command whatever the file gives, every spawn runs exactly it, and the
\* configuration is not touched again after the merge.
C12_CliCommandIsSpawned ==
    /\ [](env.run # << >> =>
            /\ config.runScripts = env.run
            /\ SpawnedCommands \subseteq {env.run}
            /\ nEvents = 0 =>
                  \A r \in {<< >>} \cup {<<l>> : l \in RunLists} :
                     Merged([file |-> [env.file EXCEPT !.runScripts = r],
                             run |-> env.run], packages).config[1].runScripts
                        = env.run)
    /\ [][config' = config]_vars

C12_Witness ==
    /\ env.run = <<"echo", "hi">>
    /\ env.file.runScripts = << <<"npm", "test">> >>
    /\ nRuns = MaxEvents
    /\ SpawnedCommands = {<<"echo", "hi">>}

\* C13: the lock a change firing takes is held until the firing's work, its
\* awaited callback included, has completed, and is free again once the work
\* has ended, normally or not.
C13_LockHeldUntilWorkEnds ==
    /\ ChangeBodiesInFlight # {} => lock.held
    /\ (ChangeBodiesInFlight = {} /\ microtasks = 0) => ~lock.held

\* The step starts a change action body.
StartsChangeBody ==
    /\ nRuns' > nRuns
    /\ \E i \in DOMAIN lastRun' : lastRun'[i].eventName = "Change"

\* C14: while the callback of a change action has not settled, no later
\* change action body starts, however many change firings occur.
C14_HungCallbackBlocksChanges ==
    [][(ChangeBodiesInFlight # {} /\ ChangeBodiesInFlight \subseteq calls')
          => ~StartsChangeBody]_vars

\* The step handles an add, addDir, unlink or unlinkDir notification.
WatchSetNotification ==
    /\ lastEvent' # << >>
    /\ nEvents' = nEvents + 1
    /\ lastEvent'[1].kind \in AddKinds \cup UnlinkKinds

StartsOneAction ==
    /\ Len(lastRun') = 1
    /\ nRuns' = nRuns + 1
    /\ lastRun'[1].id = nRuns'
    /\ KindOf(lastRun'[1].eventName) = lastEvent'[1].kind
    /\ lastRun'[1].options.filePath = lastEvent'[1].path
    /\ lastRun'[1].mode = "callback" => lastRun'[1] \in calls'
    /\ lastRun'[1].mode = "spawn" => Len(lastRun'[1].spawned) = 1
    /\ UNCHANGED <<lock, microtasks, dvars>>

\* C15: every add, addDir, unlink and unlinkDir notification starts exactly
\* one action for it, at once and in arrival order, without the debouncer and
\* without the lock; it is handled also while a change action is in flight.
C15_WatchSetEventsStartAtOnce ==
    /\ [][WatchSetNotification => StartsOneAction]_vars
    /\ []((CanNotify /\ ChangeBodiesInFlight # {}) =>
            \A p \in Paths :
                /\ ENABLED onAdd(p, "ok")
                /\ ENABLED onAddDir(p, "ok")
                /\ ENABLED onUnlink(p, "ok")
                /\ ENABLED onUnlinkDir(p, "ok"))

C15_Witness ==
    /\ ChangeBodiesInFlight # {}
    /\ lastEvent # << >>
    /\ lastEvent[1].kind = "add"
    /\ lastRun # << >>
    /\ lastRun[1].mode = "callback"
    /\ lastRun[1].id = 2
    /\ Cardinality(calls) = 2

\* The step handles a change notification.
ChangeNotification ==
    /\ lastEvent' # << >>
    /\ nEvents' = nEvents + 1
    /\ lastEvent'[1].kind = "change"

\* The step fires the change handler: the debounced function runs.
Fires ==
    \/ burst'.start = burst.start /\ burst'.fires = burst.fires + 1
    \/ nEvents' = nEvents + 1 /\ burst'.n = 1 /\ burst'.fires = 1

\* The handler runs with the arguments of the latest change notification.
CarriesLatest ==
    /\ burst'.lastFired = burst'.lastNotified
    /\ Len(lastRun') = 1
    /\ lastRun'[1].options.filePath = burst'.lastNotified[1].path
    /\ lastRun'[1].options.stats = burst'.lastNotified[1].stats

\* C16: the first change notification at an idle debouncer fires the handler
\* at once with its own path and stats; the next firing comes no sooner than
\* 2000 after that leading firing; every firing carries the path and stats of
\* the latest change notification.
C16_LeadingFiringThenQuiet ==
    /\ [][(ChangeNotification /\ Idle(Debouncer, now)) =>
            /\ Fires
            /\ burst'.lastFired[1].path = lastEvent'[1].path
            /\ burst'.lastFired[1].stats = <<lastEvent'[1].n>>]_vars
    /\ [][(Fires /\ burst.fires >= 1 /\ burst'.fires = burst.fires + 1) =>
            now' - burst.start >= wait]_vars
    /\ [][Fires => CarriesLatest]_vars

C16_Witness ==
    /\ burst.n = 3
    /\ burst.fires = 2
    /\ lastInvokeTime = burst.start + wait
    /\ burst.firstFired[1].path = FileInA
    /\ lastRun # << >>
    /\ lastRun[1].options.filePath = FileInC
    /\ lastRun[1].options.stats = <<3>>
    /\ burst.lastFired # burst.firstFired

\* The step settles a callback's promise as rejected.
Rejection ==
    /\ lastSettled' # << >>
    /\ lastSettled'[1].how = "rejected"
    /\ lastSettled'[1].call \in calls

\* C17: when a user callback rejects, nothing is logged for the event, the
\* failure is an unhandled rejection, and the action is not run again.
C17_RejectionIsUnhandled ==
    /\ [](microtasks = 0 => \A c \in calls : ENABLED CallbackRejects(c))
    /\ [][Rejection =>
            /\ logged' = << >>
            /\ raised' = "unhandledRejection"
            /\ calls' = calls \ {lastSettled'[1].call}
            /\ lastRun' = << >>
            /\ UNCHANGED <<nRuns, nEvents, watched, lock, dvars>>]_vars
    /\ []((lastSettled # << >> /\ lastSettled[1].how = "rejected") =>
             Completions(logged) = {})

C17_Witness ==
    /\ lastSettled # << >>
    /\ lastSettled[1].how = "rejected"
    /\ lastSettled[1].call.eventName = "Change"
    /\ raised = "unhandledRejection"
    /\ logged = << >>
    /\ nRuns = 1

PerformedEntries(log) == {j \in DOMAIN log : log[j].message = "Performing Action"}

EndedEntries(log) ==
    {j \in DOMAIN log : log[j].message \in {"Action Completed", "Action Failed"}}

\* C18: for every action run, of every event kind, one "action performed"
\* message is logged before it starts and one "action completed/failed"
\* message after it ends.
C18_PerformedAndEndedLogged ==
    /\ \A i \in DOMAIN lastRun :
          /\ Cardinality(PerformedEntries(logged)) = 1
          /\ lastRun[i].mode = "spawn" =>
                /\ Cardinality(EndedEntries(logged)) = 1
                /\ \A j \in PerformedEntries(logged), k \in EndedEntries(logged) : j < k
    /\ lastSettled # << >> => Cardinality(EndedEntries(logged)) = 1

\* What the child's three streams must be, by the flag.
StreamsByFlag ==
    IF config.noChildProcessLogs THEN <<"ignore", "ignore", "ignore">>
    ELSE <<"inherit", "inherit", "process.stderr">>

\* C19: the child's standard streams depend on noChildProcessLogs alone: all
\* three discarded when it is set; stdin and stdout inherited and stderr sent
\* to the parent's stderr when it is not.
C19_StreamsFollowFlag ==
    \A i \in DOMAIN lastRun :
        lastRun[i].mode = "spawn" => lastRun[i].spawned[1].stdio = StreamsByFlag

\* C20: an event whose path lies under no package is handled all the same:
\* the watch set is updated and the action runs, with the empty string as
\* package name and as package directory; resolving the package raises
\* nothing.
C20_StrayPathStillHandled ==
    /\ \A i \in DOMAIN lastRun :
          Owners(lastRun[i].options.filePath) = {} =>
             /\ lastRun[i].options.currentPkg = << >>
             /\ lastRun[i].options.packagePath = << >>
             /\ lastRun[i].mode = "spawn" => lastRun[i].spawned[1].cwd = << >>
    /\ (lastEvent # << >> /\ lastEvent[1].kind \in AddKinds \cup UnlinkKinds
          /\ Owners(lastEvent[1].path) = {}) =>
             /\ WatchSetFollows
             /\ Len(lastRun) = 1
             /\ lastRun[1].options.filePath = lastEvent[1].path

====
